---- MODULE Spec2Model ----
(***************************************************************************)
(* Model of the scheduled-task commands of src-tauri/src/lib.rs:           *)
(* create_scheduled_task, list_scheduled_tasks and delete_scheduled_task,  *)
(* on both build targets (schtasks.exe on Windows, crontab elsewhere).     *)
(* Strings of the program are TLA+ strings; the crontab is one string, as  *)
(* the program reads and writes it.                                        *)
(***************************************************************************)
EXTENDS Integers, Sequences, FiniteSets, TLC

VARIABLES
    os,         \* build target: "windows" or "unix" (cfg(target_os))
    crontab,    \* the user's cron table, the text `crontab -l` prints
    tasks,      \* the Task Scheduler store: task name -> task record
    pc,         \* per caller: "idle", or "write" between crontab -l and crontab -
    call,       \* per caller: arguments and locals of the call in progress
    ret,        \* per caller: the Result of the last call that returned
    ncalls,     \* number of calls started so far
    table0,     \* history: the cron table before the first call
    registered, \* history: names Register was ever called with (or held at start)
    overlapped, \* history: some call started while another was between read and write
    last        \* history: the caller whose call returned most recently, 0 if none

vars ==
    <<os, crontab, tasks, pc, call, ret, ncalls, table0, registered, overlapped, last>>

----------------------------------------------------------------------------
(* Bounds and input sets *)

MaxCalls == 2
Procs == {1, 2}

TaskNames == {"a", "ab"}
Scripts == {"/s.sh"}
StartTimes == {"14:30"}
StartDates == {"", "2026/01/01"}
Repeats == {"weekly"}

\* the wider input sets of the entry-construction specification
AllStartTimes == {"14:30", "7", "", ":5", "14:", "14:30:15"}
AllRepeats == {"hourly", "daily", "weekly", "monthly", "once", "yearly"}

Diag == "ERROR: denied"

----------------------------------------------------------------------------
(* String helpers: the std functions the code calls *)

\* str::contains(pat)
Contains(s, pat) ==
    \E i \in 1..(Len(s) - Len(pat) + 1) : SubSeq(s, i, i + Len(pat) - 1) = pat

\* index of the first occurrence of the one-character string c in s, 0 if none
IndexOf(s, c) ==
    IF \E i \in 1..Len(s) : SubSeq(s, i, i) = c
    THEN CHOOSE i \in 1..Len(s) :
            /\ SubSeq(s, i, i) = c
            /\ \A j \in 1..(i - 1) : SubSeq(s, j, j) # c
    ELSE 0

\* str::lines strips one trailing carriage return of each line
StripCR(s) ==
    IF Len(s) > 0 /\ SubSeq(s, Len(s), Len(s)) = "\r"
    THEN SubSeq(s, 1, Len(s) - 1)
    ELSE s

\* str::lines(): split at "\n"; a final empty piece is not a line
RECURSIVE Lines(_)
Lines(s) ==
    IF s = "" THEN <<>>
    ELSE LET i == IndexOf(s, "\n") IN
         IF i = 0 THEN <<StripCR(s)>>
         ELSE <<StripCR(SubSeq(s, 1, i - 1))>> \o Lines(SubSeq(s, i + 1, Len(s)))

\* str::split(c): always at least one piece, pieces may be empty
RECURSIVE Split(_, _)
Split(s, c) ==
    LET i == IndexOf(s, c) IN
    IF i = 0 THEN <<s>>
    ELSE <<SubSeq(s, 1, i - 1)>> \o Split(SubSeq(s, i + 1, Len(s)), c)

\* [&str]::join(sep)
RECURSIVE Join(_, _)
Join(ls, sep) ==
    IF Len(ls) = 0 THEN ""
    ELSE IF Len(ls) = 1 THEN ls[1]
    ELSE ls[1] \o sep \o Join(Tail(ls), sep)

\* Vec::get(idx).unwrap_or(default), idx counted from 0
GetOr(parts, idx, default) ==
    IF idx + 1 <= Len(parts) THEN parts[idx + 1] ELSE default

----------------------------------------------------------------------------
(* create_scheduled_task *)

\* Windows: the namespaced task identifier
Tn(task_name) == "AUI\\" \o task_name

\* Windows: the command line of the task
Tr(script_path) ==
    "powershell.exe -ExecutionPolicy Bypass -File \"" \o script_path \o "\""

\* Windows: map repeat type to schtasks /SC value
Sc(repeat) ==
    CASE repeat = "hourly" -> "HOURLY"
      [] repeat = "daily" -> "DAILY"
      [] repeat = "weekly" -> "WEEKLY"
      [] repeat = "monthly" -> "MONTHLY"
      [] OTHER -> "ONCE"

\* Windows: the argument vector of schtasks.exe /Create
CreateArgs(task_name, script_path, start_time, start_date, repeat) ==
    <<"/Create", "/TN", Tn(task_name), "/TR", Tr(script_path),
      "/SC", Sc(repeat), "/ST", start_time, "/F">>
    \o (IF Sc(repeat) # "HOURLY" /\ start_date # ""
        THEN <<"/SD", start_date>> ELSE <<>>)

\* unix: convert repeat + time into a cron expression
CronLine(repeat, start_time) ==
    LET parts == Split(start_time, ":")
        hour == GetOr(parts, 0, "9")
        min == GetOr(parts, 1, "0")
    IN CASE repeat = "hourly" -> "0 * * * *"
         [] repeat = "daily" -> min \o " " \o hour \o " * * *"
         [] repeat = "weekly" -> min \o " " \o hour \o " * * 1"
         [] repeat = "monthly" -> min \o " " \o hour \o " 1 * *"
         [] OTHER -> min \o " " \o hour \o " * * *"

\* unix: the crontab entry
Entry(cron_line, script_path, task_name) ==
    cron_line \o " /bin/bash '" \o script_path \o "' # AUI:" \o task_name \o "\n"

\* variants of RegisterNewCrontab: the table read is dropped; an entry already
\* in the table is not appended again
RegisterNewCrontab_dropExisting(existing, entry) == entry

RegisterNewCrontab_dedupe(existing, entry) ==
    IF Contains(existing, entry) THEN existing ELSE existing \o entry

\* unix: the table handed to `crontab -`
RegisterNewCrontab(existing, entry) == existing \o entry

----------------------------------------------------------------------------
(* list_scheduled_tasks *)

\* variant of ListKeeps: the marker without its colon
ListKeeps_noColon(line) == Contains(line, "# AUI")

\* unix: the filter of the listing
ListKeeps(line) == Contains(line, "# AUI:")

RECURSIVE AuiEntries(_)
AuiEntries(ls) ==
    IF Len(ls) = 0 THEN <<>>
    ELSE (IF ListKeeps(ls[1]) THEN <<ls[1]>> ELSE <<>>) \o AuiEntries(Tail(ls))

\* unix: the string list_scheduled_tasks returns for the text crontab -l printed
ListOutput(stdout) == Join(AuiEntries(Lines(stdout)), "\n")

----------------------------------------------------------------------------
(* delete_scheduled_task *)

DeleteMarker(task_name) == "# AUI:" \o task_name

\* variant of DeleteKeeps: only lines that start with the marker are dropped
DeleteKeeps_startsWith(line, marker) == SubSeq(line, 1, Len(marker)) # marker

\* unix: the filter of the deletion
DeleteKeeps(line, marker) == ~Contains(line, marker)

RECURSIVE Filtered(_, _)
Filtered(ls, marker) ==
    IF Len(ls) = 0 THEN <<>>
    ELSE (IF DeleteKeeps(ls[1], marker) THEN <<ls[1]>> ELSE <<>>)
         \o Filtered(Tail(ls), marker)

\* unix: the table handed to `crontab -`
DeleteNewCrontab(existing, task_name) ==
    Join(Filtered(Lines(existing), DeleteMarker(task_name)), "\n") \o "\n"

----------------------------------------------------------------------------
(* The external mechanisms, as the commands drive them *)

\* schtasks /Create ... /F: create the task or overwrite the one of that name
SchtasksCreate(store, args) ==
    LET tn == args[3]
        rec == [tr |-> args[5], sc |-> args[7], st |-> args[9],
                sd |-> IF Len(args) >= 12 THEN args[12] ELSE ""]
    IN [t \in (DOMAIN store) \cup {tn} |-> IF t = tn THEN rec ELSE store[t]]

\* schtasks /Delete /TN tn /F
SchtasksDelete(store, tn) == [t \in (DOMAIN store) \ {tn} |-> store[t]]

\* one row of schtasks /Query /FO CSV /NH
CsvRow(tn) == "\"\\" \o tn \o "\",\"N/A\",\"Ready\"\r\n"

\* the orders in which the query may print the tasks
Orderings(S) ==
    {f \in [1..Cardinality(S) -> S] : \A i, j \in DOMAIN f : f[i] = f[j] => i = j}

RECURSIVE CsvOf(_)
CsvOf(tns) == IF Len(tns) = 0 THEN "" ELSE CsvRow(tns[1]) \o CsvOf(Tail(tns))

----------------------------------------------------------------------------
(* State *)

IdleCall ==
    [op |-> "none", name |-> "", script |-> "", time |-> "", repeat |-> "",
     existing |-> "", entry |-> "", rd |-> "none"]

NoRet ==
    [op |-> "none", name |-> "", ok |-> TRUE, msg |-> "", exit |-> "none",
     rd |-> "none", entry |-> "", stdout |-> "", existing |-> "",
     time |-> "", date |-> "", repeat |-> ""]

EmptyStore == [t \in {} |-> ""]

ForeignLine == "# AUI jobs\n"
OldEntry == Entry(CronLine("weekly", "14:30"), "/s.sh", "ab")
OldTask == SchtasksCreate(EmptyStore, CreateArgs("ab", "/s.sh", "14:30", "", "weekly"))

\* cron tables the user may have when the application starts
InitTables ==
    {[tab |-> "", reg |-> {}],
     [tab |-> ForeignLine, reg |-> {}],
     [tab |-> ForeignLine \o OldEntry, reg |-> {"ab"}]}

InitStores ==
    {[store |-> EmptyStore, reg |-> {}], [store |-> OldTask, reg |-> {"ab"}]}

InitCommon ==
    /\ pc = [p \in Procs |-> "idle"]
    /\ call = [p \in Procs |-> IdleCall]
    /\ ret = [p \in Procs |-> NoRet]
    /\ overlapped = FALSE
    /\ last = 0

Init ==
    /\ InitCommon
    /\ ncalls = 0
    /\ os \in {"windows", "unix"}
    /\ \/ /\ os = "unix"
          /\ tasks = EmptyStore
          /\ \E t \in InitTables : crontab = t.tab /\ registered = t.reg
       \/ /\ os = "windows"
          /\ crontab = ""
          /\ \E s \in InitStores : tasks = s.store /\ registered = s.reg
    /\ table0 = crontab

Busy(p) == \E q \in Procs \ {p} : pc[q] = "write"

----------------------------------------------------------------------------
(* Windows: each command is one run of schtasks.exe *)

WinRegister(p, task_name, script_path, start_time, start_date, repeat, run) ==
    /\ os = "windows" /\ pc[p] = "idle" /\ ncalls < MaxCalls
    /\ LET args == CreateArgs(task_name, script_path, start_time, start_date, repeat)
           r == [NoRet EXCEPT !.op = "register", !.name = task_name, !.exit = run,
                              !.existing = tasks, !.time = start_time,
                              !.date = start_date, !.repeat = repeat]
       IN /\ tasks' = IF run = "exit_ok" THEN SchtasksCreate(tasks, args) ELSE tasks
          /\ ret' = [ret EXCEPT ![p] =
                CASE run = "spawn_err" ->
                       [r EXCEPT !.ok = FALSE, !.msg = "Failed to run schtasks: os error"]
                  [] run = "exit_fail" ->
                       [r EXCEPT !.ok = FALSE, !.msg = "schtasks failed: " \o Diag]
                  [] OTHER ->
                       [r EXCEPT !.msg = "Created scheduled task: " \o Tn(task_name)]]
    /\ ncalls' = ncalls + 1
    /\ registered' = registered \cup {task_name}
    /\ last' = p
    /\ UNCHANGED <<os, crontab, pc, call, table0, overlapped>>

WinList(p, run) ==
    /\ os = "windows" /\ pc[p] = "idle" /\ ncalls < MaxCalls
    /\ ncalls' = ncalls + 1
    /\ \E order \in Orderings(DOMAIN tasks) :
         ret' = [ret EXCEPT ![p] =
            IF run = "spawn_err"
            THEN [NoRet EXCEPT !.op = "list", !.exit = run,
                               !.ok = FALSE,
                               !.msg = "Failed to query schtasks: os error"]
            ELSE [NoRet EXCEPT !.op = "list", !.exit = run,
                               !.msg = IF run = "exit_ok" THEN CsvOf(order) ELSE ""]]
    /\ last' = p
    /\ UNCHANGED <<os, crontab, tasks, pc, call, table0, registered, overlapped>>

WinDelete(p, task_name, run) ==
    /\ os = "windows" /\ pc[p] = "idle" /\ ncalls < MaxCalls
    \* schtasks cannot delete a task the store does not hold
    /\ run = "exit_ok" => Tn(task_name) \in DOMAIN tasks
    /\ LET r == [NoRet EXCEPT !.op = "delete", !.name = task_name, !.exit = run,
                              !.existing = tasks]
       IN /\ tasks' = IF run = "exit_ok" THEN SchtasksDelete(tasks, Tn(task_name))
                      ELSE tasks
          /\ ret' = [ret EXCEPT ![p] =
                CASE run = "spawn_err" ->
                       [r EXCEPT !.ok = FALSE, !.msg = "Failed to run schtasks: os error"]
                  [] run = "exit_fail" ->
                       [r EXCEPT !.ok = FALSE, !.msg = "schtasks delete failed: " \o Diag]
                  [] OTHER ->
                       [r EXCEPT !.msg = "Deleted scheduled task: " \o Tn(task_name)]]
    /\ ncalls' = ncalls + 1
    /\ last' = p
    /\ UNCHANGED <<os, crontab, pc, call, table0, registered, overlapped>>

----------------------------------------------------------------------------
(* unix: a mutation is crontab -l, then crontab - *)

\* crontab -l: the text read; a failure to run it gives the default, ""
ReadExisting(rd) == IF rd = "ok" THEN crontab ELSE ""

RegisterRead(p, task_name, script_path, start_time, start_date, repeat, rd) ==
    /\ os = "unix" /\ pc[p] = "idle" /\ ncalls < MaxCalls
    /\ call' = [call EXCEPT ![p] =
          [op |-> "register", name |-> task_name, script |-> script_path,
           time |-> start_time, repeat |-> repeat,
           existing |-> ReadExisting(rd), rd |-> rd,
           entry |-> Entry(CronLine(repeat, start_time), script_path, task_name)]]
    /\ pc' = [pc EXCEPT ![p] = "write"]
    /\ ncalls' = ncalls + 1
    /\ registered' = registered \cup {task_name}
    /\ overlapped' = (overlapped \/ Busy(p))
    /\ UNCHANGED <<os, crontab, tasks, ret, table0, last>>

\* the Result of a mutation, from the outcome of running crontab -
WriteResult(c, wr, okmsg) ==
    LET r == [NoRet EXCEPT !.op = c.op, !.name = c.name, !.exit = wr,
                           !.rd = c.rd, !.entry = c.entry,
                           !.existing = c.existing, !.time = c.time,
                           !.repeat = c.repeat]
    IN CASE wr = "spawn_err" ->
              [r EXCEPT !.ok = FALSE, !.msg = "Failed to set crontab: os error"]
         [] wr = "write_err" ->
              [r EXCEPT !.ok = FALSE, !.msg = "Failed to write crontab: os error"]
         [] wr = "wait_err" ->
              [r EXCEPT !.ok = FALSE, !.msg = "crontab process error: os error"]
         [] OTHER -> [r EXCEPT !.msg = okmsg \o c.name]

\* crontab -: the table is replaced when the child installs its input
Installs(wr, new_crontab) ==
    \/ wr = "exit_ok" /\ crontab' = new_crontab
    \/ wr = "wait_err" /\ crontab' \in {crontab, new_crontab}
    \/ wr \in {"spawn_err", "write_err", "exit_fail"} /\ crontab' = crontab

RegisterWrite(p, wr) ==
    /\ os = "unix" /\ pc[p] = "write" /\ call[p].op = "register"
    /\ Installs(wr, RegisterNewCrontab(call[p].existing, call[p].entry))
    /\ ret' = [ret EXCEPT ![p] = WriteResult(call[p], wr, "Created cron job: AUI:")]
    /\ pc' = [pc EXCEPT ![p] = "idle"]
    /\ call' = [call EXCEPT ![p] = IdleCall]
    /\ last' = p
    /\ UNCHANGED <<os, tasks, ncalls, table0, registered, overlapped>>

List(p, rd) ==
    /\ os = "unix" /\ pc[p] = "idle" /\ ncalls < MaxCalls
    /\ ncalls' = ncalls + 1
    /\ ret' = [ret EXCEPT ![p] =
          IF rd = "ok"
          THEN [NoRet EXCEPT !.op = "list", !.rd = rd,
                             !.stdout = crontab, !.msg = ListOutput(crontab)]
          ELSE [NoRet EXCEPT !.op = "list", !.rd = rd,
                             !.ok = FALSE,
                             !.msg = "Failed to read crontab: os error"]]
    /\ last' = p
    /\ UNCHANGED <<os, crontab, tasks, pc, call, table0, registered, overlapped>>

DeleteRead(p, task_name, rd) ==
    /\ os = "unix" /\ pc[p] = "idle" /\ ncalls < MaxCalls
    /\ call' = [call EXCEPT ![p] =
          [IdleCall EXCEPT !.op = "delete", !.name = task_name,
                           !.existing = ReadExisting(rd), !.rd = rd]]
    /\ pc' = [pc EXCEPT ![p] = "write"]
    /\ ncalls' = ncalls + 1
    /\ overlapped' = (overlapped \/ Busy(p))
    /\ UNCHANGED <<os, crontab, tasks, ret, table0, registered, last>>

DeleteWrite(p, wr) ==
    /\ os = "unix" /\ pc[p] = "write" /\ call[p].op = "delete"
    /\ Installs(wr, DeleteNewCrontab(call[p].existing, call[p].name))
    /\ ret' = [ret EXCEPT ![p] = WriteResult(call[p], wr, "Deleted cron job: AUI:")]
    /\ pc' = [pc EXCEPT ![p] = "idle"]
    /\ call' = [call EXCEPT ![p] = IdleCall]
    /\ last' = p
    /\ UNCHANGED <<os, tasks, ncalls, table0, registered, overlapped>>

----------------------------------------------------------------------------
(* Specifications *)

RunOutcomes == {"spawn_err", "exit_fail", "exit_ok"}
ReadOutcomes == {"ok", "spawn_err"}
WriteOutcomes == {"spawn_err", "write_err", "wait_err", "exit_fail", "exit_ok"}

Next ==
    \E p \in Procs :
       \/ \E n \in TaskNames, s \in Scripts, t \in StartTimes, d \in StartDates,
             r \in Repeats, run \in RunOutcomes : WinRegister(p, n, s, t, d, r, run)
       \/ \E run \in RunOutcomes : WinList(p, run)
       \/ \E n \in TaskNames, run \in RunOutcomes : WinDelete(p, n, run)
       \/ \E n \in TaskNames, s \in Scripts, t \in StartTimes, d \in StartDates,
             r \in Repeats, rd \in ReadOutcomes : RegisterRead(p, n, s, t, d, r, rd)
       \/ \E wr \in WriteOutcomes : RegisterWrite(p, wr)
       \/ \E rd \in ReadOutcomes : List(p, rd)
       \/ \E n \in TaskNames, rd \in ReadOutcomes : DeleteRead(p, n, rd)
       \/ \E wr \in WriteOutcomes : DeleteWrite(p, wr)

Spec == Init /\ [][Next]_vars

\* Entry construction over the wider inputs: one Register call per behaviour
InitCron ==
    /\ InitCommon
    /\ ncalls = MaxCalls - 1
    /\ os = "unix"
    /\ tasks = EmptyStore
    /\ crontab \in {"", ForeignLine}
    /\ registered = {}
    /\ table0 = crontab

NextCron ==
    \E p \in Procs :
       \/ \E n \in TaskNames, s \in Scripts, t \in AllStartTimes, d \in StartDates,
             r \in AllRepeats, rd \in ReadOutcomes : RegisterRead(p, n, s, t, d, r, rd)
       \/ \E wr \in WriteOutcomes : RegisterWrite(p, wr)

SpecCron == InitCron /\ [][NextCron]_vars

----------------------------------------------------------------------------
(* Vocabulary of the properties *)

Marker == "# AUI:"

CarriesMarker(line) == Contains(line, Marker)

EndsWith(s, suf) ==
    Len(s) >= Len(suf) /\ SubSeq(s, Len(s) - Len(suf) + 1, Len(s)) = suf

\* the line is the entry of the task of this exact name
IsEntryFor(line, n) == EndsWith(line, Marker \o n)

EntriesFor(text, n) == SelectSeq(Lines(text), LAMBDA l : IsEntryFor(l, n))

Foreign(text) == SelectSeq(Lines(text), LAMBDA l : ~CarriesMarker(l))

Owned(text) == SelectSeq(Lines(text), CarriesMarker)

\* a occurs in b as a subsequence: every element, in the same relative order
RECURSIVE IsSubseq(_, _)
IsSubseq(a, b) ==
    IF Len(a) = 0 THEN TRUE
    ELSE IF Len(b) = 0 THEN FALSE
    ELSE IF a[1] = b[1] THEN IsSubseq(Tail(a), Tail(b))
    ELSE IsSubseq(a, Tail(b))

InSeq(x, ls) == \E i \in 1..Len(ls) : ls[i] = x

\* the call of p is the one that returned last: the store is as it left it
JustReturned(p, op) == last = p /\ ret[p].op = op

\* the mechanism ran and exited with success for the call p made last
Effective(p) == ret[p].ok /\ ret[p].exit = "exit_ok"

----------------------------------------------------------------------------
(* C1 *)

\* C1: on the Text backend every line of the initial table that does not
\* carry the marker is still in the table, unaltered and in the same order,
\* after any sequence of Register and Delete calls.
C1_ForeignLinesKept ==
    os = "unix" => IsSubseq(Foreign(table0), Foreign(crontab))

----------------------------------------------------------------------------
(* C2 *)

\* C2: the listing of the Text backend holds exactly the lines of the table
\* read that carry the marker, in table order, and no other line.
C2_ListOnlyOwned ==
    \A p \in Procs :
       (os = "unix" /\ ret[p].op = "list" /\ ret[p].ok) =>
          LET out == Lines(ret[p].msg) IN
          /\ \A i \in 1..Len(out) : CarriesMarker(out[i])
          /\ out = Owned(ret[p].stdout)

C2_Witness ==
    \E p \in Procs :
       /\ os = "unix" /\ ret[p].op = "list" /\ ret[p].ok
       /\ Len(Foreign(ret[p].stdout)) > 0
       /\ Len(Lines(ret[p].msg)) > 0

----------------------------------------------------------------------------
(* C3 *)

----------------------------------------------------------------------------
(* C4 *)

\* C4: Delete(name) for a name never registered, the mechanism having run:
\* the Structured backend returns an error and leaves the store as it was;
\* the Text backend returns success and every line of the table it read is
\* still in the table.
C4_DeleteUnregistered ==
    \A p \in Procs :
       (JustReturned(p, "delete") /\ ret[p].name \notin registered) =>
          IF os = "unix"
          THEN (ret[p].rd = "ok" /\ ret[p].exit = "exit_ok") =>
                  /\ ret[p].ok
                  /\ IsSubseq(Lines(ret[p].existing), Lines(crontab))
          ELSE (ret[p].exit # "spawn_err") =>
                  /\ ~ret[p].ok
                  /\ tasks = ret[p].existing

----------------------------------------------------------------------------
(* C5 *)

\* both callers made one mutating call each, every crontab run succeeded
BothMutated ==
    /\ os = "unix" /\ ncalls = 2
    /\ \A p \in Procs :
          /\ pc[p] = "idle"
          /\ ret[p].op \in {"register", "delete"}
          /\ ret[p].rd = "ok" /\ Effective(p)

\* the Delete of q matches the line the Register of p appended
Deletes(q, p) ==
    ret[q].op = "delete" /\ Contains(ret[p].entry, Marker \o ret[q].name)

\* the line a Register appended is missing though no Delete matched it, or a
\* line a Delete removed is back though no Register appended one
UpdateLost ==
    \E p, q \in Procs :
       /\ p # q
       /\ \/ /\ ret[p].op = "register" /\ ~Deletes(q, p)
             /\ ~InSeq(Lines(ret[p].entry)[1], Lines(crontab))
          \/ /\ ret[p].op = "delete"
             /\ ~(ret[q].op = "register" /\ Deletes(p, q))
             /\ \E i \in 1..Len(Lines(crontab)) :
                   Contains(Lines(crontab)[i], Marker \o ret[p].name)

----------------------------------------------------------------------------
(* C6 *)

\* both callers registered the same name, one call after the other
TwiceRegistered(n) ==
    /\ ncalls = 2 /\ ~overlapped
    /\ \A p \in Procs :
          /\ pc[p] = "idle"
          /\ ret[p].op = "register" /\ ret[p].name = n /\ Effective(p)
          /\ os = "unix" => ret[p].rd = "ok"

\* C6: after two Register calls with the same name the Structured store
\* holds exactly one entry of that name, and the Text table holds two lines
\* more of that name than before: the second is appended, the first stays.
C6_TwiceRegistered ==
    \A n \in TaskNames :
       TwiceRegistered(n) =>
          IF os = "unix"
          THEN /\ Len(EntriesFor(crontab, n)) = Len(EntriesFor(table0, n)) + 2
               /\ IsSubseq(Lines(table0), Lines(crontab))
          ELSE Cardinality({t \in DOMAIN tasks : t = "AUI\\" \o n}) = 1

C6_Witness ==
    /\ os = "unix"
    /\ TwiceRegistered("a")
    /\ Len(EntriesFor(crontab, "a")) = 2

----------------------------------------------------------------------------
(* C7 *)

\* the schedule section 4.1 assigns on the Text backend, for "HH:MM"
C7_Schedule(start_time, repeat) ==
    LET hh == SubSeq(start_time, 1, 2)
        mm == SubSeq(start_time, 4, 5)
    IN CASE repeat = "weekly" -> mm \o " " \o hh \o " * * 1"
         [] repeat = "monthly" -> mm \o " " \o hh \o " 1 * *"
         [] OTHER -> mm \o " " \o hh \o " * * *"

\* the schedule type section 4.1 assigns on the Structured backend
C7_ScheduleType(repeat) ==
    CASE repeat = "daily" -> "DAILY"
      [] repeat = "weekly" -> "WEEKLY"
      [] repeat = "monthly" -> "MONTHLY"
      [] OTHER -> "ONCE"

C7_ValidTime(t) == Len(t) = 5 /\ SubSeq(t, 3, 3) = ":"

\* C7: after a Register of a valid TaskSpec with recurrence other than
\* Hourly that the mechanism carried out, a listing holds exactly one entry
\* of the name, with the schedule of section 4.1.
C7_RegisterThenListOne ==
    \A p \in Procs :
       (/\ JustReturned(p, "register") /\ Effective(p)
        /\ ret[p].repeat # "hourly" /\ C7_ValidTime(ret[p].time)) =>
          IF os = "unix"
          THEN ret[p].rd = "ok" =>
                 LET es == EntriesFor(ListOutput(crontab), ret[p].name) IN
                 /\ Len(es) = 1
                 /\ SubSeq(es[1], 1, Len(C7_Schedule(ret[p].time, ret[p].repeat)) + 1)
                       = C7_Schedule(ret[p].time, ret[p].repeat) \o " "
          ELSE LET tn == "AUI\\" \o ret[p].name IN
               /\ tn \in DOMAIN tasks
               /\ tasks[tn].sc = C7_ScheduleType(ret[p].repeat)
               /\ tasks[tn].st = ret[p].time
               /\ tasks[tn].sd = ret[p].date

----------------------------------------------------------------------------
(* C8 *)

\* C8: a Register whose mechanism ran and exited with a non-success status
\* returns an error carrying the diagnostic text, on both backends.
C8_RejectedIsError ==
    \A p \in Procs :
       (ret[p].op = "register" /\ ret[p].exit = "exit_fail") =>
          /\ ~ret[p].ok
          /\ Contains(ret[p].msg, Diag)

----------------------------------------------------------------------------
(* C9 *)

\* the text of start_time before the first ':'
C9_Before(t) == IF IndexOf(t, ":") = 0 THEN t ELSE SubSeq(t, 1, IndexOf(t, ":") - 1)

\* the text of start_time after the first ':', up to the next one
C9_After(t) ==
    IF IndexOf(t, ":") = 0 THEN ""
    ELSE C9_Before(SubSeq(t, IndexOf(t, ":") + 1, Len(t)))

C9_Hour(t) == IF C9_Before(t) = "" THEN "9" ELSE C9_Before(t)

C9_Min(t) == IF C9_After(t) = "" THEN "0" ELSE C9_After(t)

C9_Expr(repeat, t) ==
    CASE repeat = "hourly" -> "0 * * * *"
      [] repeat = "weekly" -> C9_Min(t) \o " " \o C9_Hour(t) \o " * * 1"
      [] repeat = "monthly" -> C9_Min(t) \o " " \o C9_Hour(t) \o " 1 * *"
      [] OTHER -> C9_Min(t) \o " " \o C9_Hour(t) \o " * * *"

\* C9: the line Register appends on the Text backend is
\* '<expr> /bin/bash '<script>' # AUI:<name>', with <expr> built from the
\* recurrence and from the hour and minute of start_time, a missing hour
\* being 9 and a missing minute 0.
C9_EntryLine ==
    \A p \in Procs :
       (pc[p] = "write" /\ call[p].op = "register") =>
          Lines(call[p].entry) =
             <<C9_Expr(call[p].repeat, call[p].time) \o " /bin/bash '"
               \o call[p].script \o "' # AUI:" \o call[p].name>>

----------------------------------------------------------------------------
(* C10 *)

\* C10: on the Text backend a Delete(n1) the mechanism carried out leaves
\* the lines of every other registered name n2 in the table, in their order.
C10_DeleteExactName ==
    \A p \in Procs :
       (/\ os = "unix" /\ JustReturned(p, "delete") /\ Effective(p)
        /\ ret[p].rd = "ok" /\ ret[p].name \in registered) =>
          \A n2 \in registered \ {ret[p].name} :
             EntriesFor(crontab, n2) = EntriesFor(ret[p].existing, n2)

====
